---- MODULE Spec2Model ----
(***************************************************************************)
(* Model of the request pipeline of the ActorHub Go client                 *)
(* (src/client.go, src/errors.go): the retry loop doRequest, the single    *)
(* attempt doRequestOnce, the classifier handleResponse, the typed error   *)
(* constructors and the endpoint wrappers Verify, GetIdentity and          *)
(* CheckConsent.                                                           *)
(***************************************************************************)
EXTENDS Integers, Sequences, FiniteSets, TLC

(***************************************************************************)
(* 64-bit integers.  Go's int and time.Duration are 64-bit two's           *)
(* complement; a value is kept as four 16-bit limbs, least significant     *)
(* first, so that every intermediate product stays small.                  *)
(***************************************************************************)

\* The int64 whose value is the small natural n (n < 2^31).
I64(n) == <<n % 65536, (n \div 65536) % 65536, 0, 0>>

\* x * k for a small natural k, wrapped to 64 bits as Go's multiplication wraps.
MulSmall(x, k) ==
    LET p1 == x[1] * k
        p2 == x[2] * k + (p1 \div 65536)
        p3 == x[3] * k + (p2 \div 65536)
        p4 == x[4] * k + (p3 \div 65536)
    IN  <<p1 % 65536, p2 % 65536, p3 % 65536, p4 % 65536>>

\* The part of x * k that does not fit 64 bits (0 when the product fits).
MulSmallCarry(x, k) ==
    LET p1 == x[1] * k
        p2 == x[2] * k + (p1 \div 65536)
        p3 == x[3] * k + (p2 \div 65536)
        p4 == x[4] * k + (p3 \div 65536)
    IN  p4 \div 65536

\* x + d for a small natural d, wrapped to 64 bits.
AddSmall(x, d) ==
    LET s1 == x[1] + d
        s2 == x[2] + (s1 \div 65536)
        s3 == x[3] + (s2 \div 65536)
        s4 == x[4] + (s3 \div 65536)
    IN  <<s1 % 65536, s2 % 65536, s3 % 65536, s4 % 65536>>

\* The carry out of x + d.
AddSmallCarry(x, d) ==
    LET s1 == x[1] + d
        s2 == x[2] + (s1 \div 65536)
        s3 == x[3] + (s2 \div 65536)
        s4 == x[4] + (s3 \div 65536)
    IN  s4 \div 65536

\* Two's complement negation.
Neg64(x) == AddSmall(<<65535 - x[1], 65535 - x[2], 65535 - x[3], 65535 - x[4]>>, 1)

\* The sign bit.
IsNeg64(x) == x[4] >= 32768

\* Unsigned comparison x > y, most significant limb first.
UGt64(x, y) ==
    \/ x[4] > y[4]
    \/ x[4] = y[4] /\ x[3] > y[3]
    \/ x[4] = y[4] /\ x[3] = y[3] /\ x[2] > y[2]
    \/ x[4] = y[4] /\ x[3] = y[3] /\ x[2] = y[2] /\ x[1] > y[1]

\* Signed comparison x > y.
Gt64(x, y) ==
    IF IsNeg64(x) # IsNeg64(y) THEN IsNeg64(y) ELSE UGt64(x, y)

MaxInt64 == <<65535, 65535, 65535, 32767>>
MinInt64 == <<0, 0, 0, 32768>>

\* 1 << s on an int64: bit s alone, and 0 once the shift count reaches the width.
Shl1(s) ==
    LET limb(i) == IF s \div 16 = i - 1 THEN 2 ^ (s % 16) ELSE 0
    IN  <<limb(1), limb(2), limb(3), limb(4)>>

\* d * time.Second: a Duration counts nanoseconds and time.Second is
\* 1000 * 1000 * 1000 of them.
TimesSecond(d) == MulSmall(MulSmall(MulSmall(d, 1000), 1000), 1000)

(***************************************************************************)
(* strconv.Atoi on the Retry-After header.  A header value is a sequence   *)
(* of one-character strings; the empty sequence is an absent header.       *)
(***************************************************************************)

DigitChars == <<"0", "1", "2", "3", "4", "5", "6", "7", "8", "9">>

IsDigit(ch) == \E i \in 1..10 : DigitChars[i] = ch

DigitVal(ch) == (CHOOSE i \in 1..10 : DigitChars[i] = ch) - 1

\* The digits s[i..] accumulated onto the unsigned n: a character that is not
\* a digit is a syntax error (value 0); a value that leaves 64 bits is a range
\* error, reported at the digit where it happens.
RECURSIVE ParseUint(_, _, _)
ParseUint(s, i, n) ==
    IF i > Len(s) THEN [val |-> n, err |-> "nil"]
    ELSE IF ~IsDigit(s[i]) THEN [val |-> I64(0), err |-> "syntax"]
    ELSE IF MulSmallCarry(n, 10) > 0 THEN [val |-> MaxInt64, err |-> "range"]
    ELSE IF AddSmallCarry(MulSmall(n, 10), DigitVal(s[i])) > 0
         THEN [val |-> MaxInt64, err |-> "range"]
    ELSE ParseUint(s, i + 1, AddSmall(MulSmall(n, 10), DigitVal(s[i])))

\* strconv.Atoi: an optional sign, then decimal digits.  On a syntax error the
\* value is 0; on a range error it is the largest int of that sign.
Atoi(s) ==
    LET neg    == Len(s) > 0 /\ s[1] = "-"
        signed == Len(s) > 0 /\ s[1] \in {"-", "+"}
        first  == IF signed THEN 2 ELSE 1
        un     == ParseUint(s, first, I64(0))
    IN  IF first > Len(s) THEN [val |-> I64(0), err |-> "syntax"]
        ELSE IF un.err = "syntax" THEN un
        ELSE IF un.err = "range"
             THEN [val |-> IF neg THEN MinInt64 ELSE MaxInt64, err |-> "range"]
        ELSE IF ~neg /\ IsNeg64(un.val) THEN [val |-> MaxInt64, err |-> "range"]
        ELSE IF neg /\ UGt64(un.val, MinInt64) THEN [val |-> MinInt64, err |-> "range"]
        ELSE [val |-> IF neg THEN Neg64(un.val) ELSE un.val, err |-> "nil"]

(***************************************************************************)
(* Errors (src/errors.go).  A message is a tuple: <<text>> for a literal   *)
(* and <<format, n>> for fmt.Sprintf(format, n).                           *)
(***************************************************************************)

Str(s) == <<s>>

Sprintf(format, n) == <<format, n>>

\* The nil map[string]interface{}.
NilMap == [isNil |-> TRUE, detailType |-> "absent", detail |-> Str(""), hasErrors |-> FALSE]

\* The fields every error value of the model carries; unused ones are zero.
MkError(type, message, statusCode, requestID, retryAfter, errors, data) ==
    [type |-> type, Message |-> message, StatusCode |-> statusCode,
     RequestID |-> requestID, RetryAfter |-> retryAfter, Errors |-> errors,
     ResponseData |-> data]

\* The nil error.
NilError == MkError("nil", Str(""), 0, "", I64(0), "nil", NilMap)

NewAuthenticationError(message, requestID) ==
    MkError("AuthenticationError",
            IF message = Str("") THEN Str("Invalid or missing API key") ELSE message,
            401, requestID, I64(0), "nil", NilMap)

NewRateLimitError(message, retryAfter, requestID) ==
    MkError("RateLimitError",
            IF message = Str("") THEN Str("Rate limit exceeded") ELSE message,
            429, requestID, retryAfter, "nil", NilMap)

NewValidationError(message, errors, requestID) ==
    MkError("ValidationError",
            IF message = Str("") THEN Str("Validation error") ELSE message,
            422, requestID, I64(0), errors, NilMap)

NewNotFoundError(message, requestID) ==
    MkError("NotFoundError",
            IF message = Str("") THEN Str("Resource not found") ELSE message,
            404, requestID, I64(0), "nil", NilMap)

\* A faulty variant: every server error is reported as a 500.
NewServerError_Always500(message, statusCode, requestID) ==
    MkError("ServerError",
            IF message = Str("") THEN Str("Server error") ELSE message,
            500, requestID, I64(0), "nil", NilMap)

NewServerError(message, statusCode, requestID) ==
    MkError("ServerError",
            IF message = Str("") THEN Str("Server error") ELSE message,
            statusCode, requestID, I64(0), "nil", NilMap)

\* fmt.Errorf(what + ": %w", cause): an error of none of the typed kinds.
Errorf(what, cause) ==
    MkError("wrapped", Sprintf(what, cause), 0, "", I64(0), "nil", NilMap)

\* ctx.Err() of a done context: context.Canceled or context.DeadlineExceeded.
CtxError(kind) == MkError("context", Str(kind), 0, "", I64(0), "nil", NilMap)

(***************************************************************************)
(* handleResponse (src/client.go).  A response body is given by what       *)
(* encoding/json makes of it: kind is "empty" (no bytes), "invalid" (not   *)
(* JSON), "array" (JSON, not an object) or "object"; for an object,        *)
(* detailType/detail describe its "detail" member, hasErrors says whether  *)
(* "errors" is an object, and fits says whether it decodes into the        *)
(* destination struct without a type mismatch.                             *)
(***************************************************************************)

\* json.Unmarshal(respBody, &errResp) with the error ignored: the map stays
\* nil unless the body is a JSON object.
UnmarshalMap(body) ==
    IF body.kind = "object"
    THEN [isNil |-> FALSE, detailType |-> body.detailType, detail |-> body.detail,
          hasErrors |-> body.hasErrors]
    ELSE NilMap

\* A faulty variant: the "detail" of the body is never used.
MessageOf_IgnoreDetail(errResp, def) == def

\* message := def; if detail, ok := errResp["detail"].(string); ok { message = detail }
MessageOf(errResp, def) ==
    IF errResp.detailType = "string" THEN errResp.detail ELSE def

\* retryAfter := 0; if ra != "" { retryAfter, _ = strconv.Atoi(ra) }
RetryAfterOf(ra) == IF ra # <<>> THEN Atoi(ra).val ELSE I64(0)

\* json.Unmarshal(respBody, result) on a success: a body that is not JSON (no
\* bytes included) leaves the destination alone, a JSON value of the wrong shape fails after
\* writing what it could.
UnmarshalResult(body, dest) ==
    CASE body.kind \in {"empty", "invalid"} -> [err |-> "syntax", dest |-> dest]
      [] body.kind = "array"   -> [err |-> "type", dest |-> dest]
      [] body.kind = "object" /\ ~body.fits -> [err |-> "type", dest |-> "partial"]
      [] OTHER -> [err |-> "nil", dest |-> "decoded"]

\* A faulty variant: the body is decoded even when it has no bytes.
handleSuccess_NoLenCheck(resp, hasDest, dest) ==
    IF hasDest
    THEN LET u == UnmarshalResult(resp.body, dest)
         IN  IF u.err # "nil"
             THEN [err |-> Errorf("failed to unmarshal response: %w", u.err),
                   dest |-> u.dest]
             ELSE [err |-> NilError, dest |-> u.dest]
    ELSE [err |-> NilError, dest |-> dest]

\* The end of handleResponse, for a status below 400:
\* if result != nil && len(respBody) > 0 { json.Unmarshal(respBody, result) }.
handleSuccess(resp, hasDest, dest) ==
    IF hasDest /\ resp.body.kind # "empty"
    THEN LET u == UnmarshalResult(resp.body, dest)
         IN  IF u.err # "nil"
             THEN [err |-> Errorf("failed to unmarshal response: %w", u.err),
                   dest |-> u.dest]
             ELSE [err |-> NilError, dest |-> u.dest]
    ELSE [err |-> NilError, dest |-> dest]

\* The classifier: the error returned and the destination afterwards.
\* hasDest is result != nil.
handleResponse(resp, hasDest, dest) ==
    LET requestID == resp.requestID
        errResp   == UnmarshalMap(resp.body)
        same(e)   == [err |-> e, dest |-> dest]
    IN  IF ~resp.readOK
        THEN same(Errorf("failed to read response body: %w", "read"))
        ELSE IF resp.status = 401
        THEN same(NewAuthenticationError(
                 MessageOf(errResp, Str("Invalid or missing API key")), requestID))
        ELSE IF resp.status = 404
        THEN same(NewNotFoundError(
                 MessageOf(errResp, Str("Resource not found")), requestID))
        ELSE IF resp.status = 422
        THEN same(NewValidationError(
                 MessageOf(errResp, Str("Validation error")),
                 IF errResp.hasErrors THEN "map" ELSE "nil", requestID))
        ELSE IF resp.status = 429
        THEN same(NewRateLimitError(
                 MessageOf(errResp, Str("Rate limit exceeded")),
                 RetryAfterOf(resp.retryAfter), requestID))
        ELSE IF resp.status >= 500
        THEN same(NewServerError(
                 MessageOf(errResp, Sprintf("Server error: %d", resp.status)),
                 resp.status, requestID))
        ELSE IF resp.status >= 400
        THEN same(MkError("ActorHubError",
                 MessageOf(errResp, Sprintf("API error: %d", resp.status)),
                 resp.status, requestID, I64(0), "nil", errResp))
        ELSE handleSuccess(resp, hasDest, dest)

(***************************************************************************)
(* Bounds and inputs.                                                      *)
(***************************************************************************)

\* The default retry ceiling set by NewClient.
DefaultMaxRetries == 3

\* WithMaxRetries takes any int: the model configures the values
\* -NegRetries .. SmallRetries, the default, and one ceiling, LargeRetries,
\* beyond the attempt at which 2^attempt seconds leaves a 64-bit Duration.
NegRetries == 1
SmallRetries == 2
LargeRetries == 36

MaxRetriesValues ==
    ((0 - NegRetries) .. SmallRetries) \cup {DefaultMaxRetries, LargeRetries}

\* Status codes a server may answer with, around every boundary of the classifier.
Statuses == {200, 399, 400, 401, 404, 422, 429, 499, 500, 503}

MkBody(kind, detailType, detail, hasErrors, fits) ==
    [kind |-> kind, detailType |-> detailType, detail |-> Str(detail),
     hasErrors |-> hasErrors, fits |-> fits]

\* Response bodies: no bytes, bytes that are not JSON, a JSON array, and JSON
\* objects with and without a "detail" member (a string, the empty string, a
\* number) and an "errors" object.
Bodies ==
    { MkBody("empty", "absent", "", FALSE, FALSE),
      MkBody("invalid", "absent", "", FALSE, FALSE),
      MkBody("array", "absent", "", FALSE, FALSE),
      MkBody("object", "absent", "", FALSE, TRUE),
      MkBody("object", "absent", "", FALSE, FALSE),
      MkBody("object", "string", "boom", FALSE, TRUE),
      MkBody("object", "string", "", FALSE, TRUE),
      MkBody("object", "number", "", FALSE, TRUE),
      MkBody("object", "string", "boom", TRUE, TRUE),
      MkBody("object", "absent", "", TRUE, TRUE) }

\* Retry-After header values: absent, not a number, 0, small, large, and a
\* decimal number larger than any int64.
BigHeader == [i \in 1..20 |-> "9"]

Headers ==
    { <<>>, <<"a", "b", "c">>, <<"0">>, <<"5">>, <<"1", "2", "0">>, BigHeader }

\* X-Request-ID header values; "" is an absent header.
RequestIDs == {"", "req-1"}

\* Every response the classifier is applied to.
Responses ==
    [status : Statuses, body : Bodies, retryAfter : Headers,
     requestID : RequestIDs, readOK : BOOLEAN]

MkResponse(status, body, retryAfter, requestID, readOK) ==
    [status |-> status, body |-> body, retryAfter |-> retryAfter,
     requestID |-> requestID, readOK |-> readOK]

EmptyBody == MkBody("empty", "absent", "", FALSE, FALSE)
BoomBody == MkBody("object", "string", "boom", FALSE, TRUE)

\* The responses the server of the retry loop answers with: every status
\* with an empty body and no request ID, and with a "detail" and a request
\* ID; every Retry-After value on a 429; every body on a 200; an empty
\* "detail" on a 500, an "errors" object on a 422, and bodies that cannot be
\* read.
ServedResponses ==
    {MkResponse(st, EmptyBody, <<>>, "", TRUE) : st \in Statuses}
    \cup {MkResponse(st, BoomBody, <<>>, "req-1", TRUE) : st \in Statuses}
    \cup {MkResponse(429, EmptyBody, h, "", TRUE) : h \in Headers}
    \cup {MkResponse(200, b, <<>>, "", TRUE) : b \in Bodies}
    \cup {MkResponse(500, MkBody("object", "string", "", FALSE, TRUE), <<>>, "", TRUE),
          MkResponse(422, MkBody("object", "absent", "", TRUE, TRUE), <<>>, "req-1", TRUE),
          MkResponse(200, EmptyBody, <<>>, "", FALSE),
          MkResponse(503, EmptyBody, <<>>, "req-1", FALSE)}

\* The calls that run concurrently on one Client.
NumCalls == 2
CallIds == 1 .. NumCalls

\* What the server answers a concurrent call with: a success, a failure that
\* is not retried, and the two that are.
ConcurrentResponses ==
    {MkResponse(st, EmptyBody, <<>>, "", TRUE) : st \in {200, 404, 429, 503}}

\* The maxRetries of the Client the concurrent calls share: none, one, or
\* two attempts per call.
ConcurrentRetries == {0 - NegRetries, 0, 1, 2}

\* Request payloads of Verify and CheckConsent: each string field empty or
\* not, the embedding empty, finite, or holding a NaN (which json.Marshal
\* rejects).
Requests ==
    [ImageURL : {"", "u"}, ImageBase64 : {"", "b"},
     FaceEmbedding : {<<>>, <<"0.5">>, <<"NaN">>}]

\* Identity IDs of GetIdentity: a plain one and one with a control character,
\* which http.NewRequestWithContext refuses in a URL.
IdentityIDs == {"id-1", "bad\n"}

(***************************************************************************)
(* State.                                                                  *)
(***************************************************************************)

VARIABLES
    client,   \* the Client: its configuration
    ctx,      \* the caller's context: done or not, and its Err()
    call,     \* the one call in progress: doRequest's locals and its result
    probe,    \* one application of handleResponse on its own: input and output
    calls     \* concurrent calls on the one Client, each with its own context

vars == <<client, ctx, call, probe, calls>>

\* NewClient(apiKey, WithMaxRetries(m)): the configuration after construction.
NewClient(m) ==
    [apiKey |-> "key", baseURL |-> "https://api.actorhub.ai", maxRetries |-> m]

IdleCall ==
    [pc |-> "idle", op |-> "none",
     req |-> [ImageURL |-> "", ImageBase64 |-> "", FaceEmbedding |-> <<>>],
     identityID |-> "",
     hasDest |-> FALSE, dest |-> "zero",
     attempt |-> 0, lastErr |-> NilError, waitTime |-> I64(0),
     retErr |-> NilError, retResult |-> "nil",
     \* history, for stating properties only
     dispatched |-> FALSE,      \* doRequest was entered
     attempts |-> 0,            \* calls of doRequestOnce
     sent |-> 0,                \* requests handed to the transport
     waits |-> 0,               \* backoff waits that ran to their end
     attemptErr |-> NilError,   \* what the latest doRequestOnce returned
     retryAfterHdr |-> <<>>,    \* the Retry-After header of its response
     onlyRetryable |-> TRUE,    \* every attempt so far failed retryably
     cutShort |-> FALSE]        \* a backoff wait was ended by the context

\* No application of handleResponse on its own.
NoProbe ==
    [resp |-> MkResponse(200, EmptyBody, <<>>, "", TRUE), hasDest |-> FALSE,
     dest |-> "zero", applied |-> FALSE, out |-> [err |-> NilError, dest |-> "zero"]]

\* A concurrent call before it starts: doRequest's locals, the context it
\* was given, and what has happened to it so far, in order.
FreshCall ==
    [c |-> IdleCall, cx |-> [done |-> FALSE, err |-> "nil"], hist |-> <<>>]

NoCalls == [i \in CallIds |-> FreshCall]

Init ==
    /\ client \in {NewClient(m) : m \in MaxRetriesValues}
    /\ ctx = [done |-> FALSE, err |-> "nil"]
    /\ call = IdleCall
    /\ probe = NoProbe
    /\ calls = NoCalls

(***************************************************************************)
(* doRequest and doRequestOnce (src/client.go).                            *)
(***************************************************************************)

\* doRequest returns err, and the endpoint wrapper around it returns
\* (nil, err) or (&result, nil).  A direct doRequest call has no wrapper.
Return(c, err) ==
    [c EXCEPT !.pc = "done", !.retErr = err,
              !.retResult = IF err = NilError /\ c.hasDest THEN c.dest ELSE "nil"]

\* A faulty variant: every error but nil is retried, wrapped ones included.
IsRetryable_Wrapped(err) == err.type \in {"RateLimitError", "ServerError", "wrapped"}

\* case *RateLimitError, *ServerError
IsRetryable(err) == err.type \in {"RateLimitError", "ServerError"}

\* waitTime := time.Duration(1<<attempt) * time.Second, capped at 10 seconds.
WaitTime(attempt) ==
    LET waitTime   == TimesSecond(Shl1(attempt))
        tenSeconds == TimesSecond(I64(10))
    IN  IF Gt64(waitTime, tenSeconds) THEN tenSeconds ELSE waitTime

\* A faulty variant: lastErr keeps the first failure instead of the latest.
doRequestResult_FirstErr(c, err, dest) ==
    LET c1 == [c EXCEPT !.dest = dest, !.attemptErr = err,
                        !.onlyRetryable = c.onlyRetryable /\ IsRetryable(err)]
        kept == IF c.lastErr = NilError THEN err ELSE c.lastErr
    IN  IF err = NilError THEN Return(c1, NilError)
        ELSE IF IsRetryable(err)
        THEN [c1 EXCEPT !.lastErr = kept, !.pc = "backoff",
                        !.waitTime = WaitTime(c.attempt)]
        ELSE Return([c1 EXCEPT !.lastErr = err], err)

\* A faulty variant: a retryable failure is followed by the next request at
\* once, without the select on the context and the timer.
doRequestResult_NoBackoff(c, err, dest) ==
    LET c1 == [c EXCEPT !.dest = dest, !.attemptErr = err,
                        !.onlyRetryable = c.onlyRetryable /\ IsRetryable(err)]
    IN  IF err = NilError THEN Return(c1, NilError)
        ELSE IF IsRetryable(err)
        THEN [c1 EXCEPT !.lastErr = err, !.pc = "inflight",
                        !.attempt = c.attempt + 1,
                        !.attempts = c.attempts + 1, !.sent = c.sent + 1]
        ELSE Return([c1 EXCEPT !.lastErr = err], err)

\* The body of the loop after doRequestOnce has returned err, having left
\* the destination as dest: return on nil, remember the error, then wait
\* before the next attempt or return.
doRequestResult(c, err, dest) ==
    LET c1 == [c EXCEPT !.dest = dest, !.attemptErr = err,
                        !.onlyRetryable = c.onlyRetryable /\ IsRetryable(err)]
    IN  IF err = NilError THEN Return(c1, NilError)
        ELSE IF IsRetryable(err)
        THEN [c1 EXCEPT !.lastErr = err, !.pc = "backoff",
                        !.waitTime = WaitTime(c.attempt)]
        ELSE Return([c1 EXCEPT !.lastErr = err], err)

\* json.Marshal(body): nil for a nil body; a NaN in the embedding is refused.
MarshalOK(c) == ~(c.op = "CheckConsent" /\ \E i \in 1..Len(c.req.FaceEmbedding) :
                                              c.req.FaceEmbedding[i] = "NaN")

\* http.NewRequestWithContext: refuses a URL with a control character.
NewRequestOK(c) == ~(c.op = "GetIdentity" /\ c.identityID = "bad\n")

\* doRequestOnce up to and including the start of httpClient.Do: the error it
\* returns at once, or NilError when the request is on the wire.  A context
\* that is already done makes Do fail before anything is sent.
doRequestOnce(c, cx) ==
    IF ~MarshalOK(c) THEN Errorf("failed to marshal request body: %w", "marshal")
    ELSE IF ~NewRequestOK(c) THEN Errorf("failed to create request: %w", "url")
    ELSE IF cx.done THEN Errorf("failed to send request: %w", cx.err)
    ELSE NilError

\* A faulty variant: the loop runs while attempt <= maxRetries.
doRequest_OffByOne(c, cl, cx) ==
    IF ~(c.attempt <= cl.maxRetries) THEN Return(c, c.lastErr)
    ELSE LET c1  == [c EXCEPT !.attempts = c.attempts + 1, !.retryAfterHdr = <<>>]
             err == doRequestOnce(c, cx)
         IN  IF err # NilError THEN doRequestResult(c1, err, c1.dest)
             ELSE [c1 EXCEPT !.pc = "inflight", !.sent = c.sent + 1]

\* The head of the loop with c.attempt set: leave with lastErr when
\* attempt < c.maxRetries fails, else start attempt number c.attempt.
doRequest(c, cl, cx) ==
    IF ~(c.attempt < cl.maxRetries) THEN Return(c, c.lastErr)
    ELSE LET c1  == [c EXCEPT !.attempts = c.attempts + 1, !.retryAfterHdr = <<>>]
             err == doRequestOnce(c, cx)
         IN  IF err # NilError THEN doRequestResult(c1, err, c1.dest)
             ELSE [c1 EXCEPT !.pc = "inflight", !.sent = c.sent + 1]

\* A faulty variant: one empty field is enough to refuse the request.
VerifyInvalid_Either(req) == req.ImageURL = "" \/ req.ImageBase64 = ""

\* The local check of Verify.
VerifyInvalid(req) == req.ImageURL = "" /\ req.ImageBase64 = ""

\* The local check of CheckConsent.
CheckConsentInvalid(req) ==
    req.ImageURL = "" /\ req.ImageBase64 = "" /\ Len(req.FaceEmbedding) = 0

\* A faulty variant: the classified failure is returned when the context ends the wait.
SelectCtxDone_LastErr(c, cx) == Return([c EXCEPT !.cutShort = TRUE], c.lastErr)

\* case <-ctx.Done(): return ctx.Err()
SelectCtxDone(c, cx) == Return([c EXCEPT !.cutShort = TRUE], CtxError(cx.err))

\* A faulty variant: the loop counter is not advanced after the wait.
SelectTimer_NoAdvance(c, cl, cx) ==
    doRequest([c EXCEPT !.waits = c.waits + 1], cl, cx)

\* case <-time.After(waitTime): continue
SelectTimer(c, cl, cx) ==
    doRequest([c EXCEPT !.attempt = c.attempt + 1, !.waits = c.waits + 1], cl, cx)

(***************************************************************************)
(* Concurrent doRequest calls on one Client.                               *)
(***************************************************************************)

\* What can happen to a call: it is started, its request is answered or
\* fails, its backoff timer fires, its context is cancelled, or the backoff
\* select sees the cancelled context.
Event(kind, resp) == [kind |-> kind, resp |-> resp]

Events ==
    {Event(k, MkResponse(200, EmptyBody, <<>>, "", TRUE)) :
        k \in {"start", "fail", "timer", "ctxdone", "cancel"}}
    \cup {Event("resp", r) : r \in ConcurrentResponses}

\* The guard of an event on a call in state s.
EventEnabled(s, ev) ==
    CASE ev.kind = "start"   -> s.c.pc = "idle"
      [] ev.kind = "resp"    -> s.c.pc = "inflight" /\ ~s.cx.done
      [] ev.kind = "fail"    -> s.c.pc = "inflight"
      [] ev.kind = "timer"   -> s.c.pc = "backoff" /\ ~s.cx.done
      [] ev.kind = "ctxdone" -> s.c.pc = "backoff" /\ s.cx.done
      [] ev.kind = "cancel"  -> ~s.cx.done /\ s.c.pc # "done"
      [] OTHER -> FALSE

\* One step of doRequest on its own locals and its own context, under the
\* configuration cl of the Client.
StepOf(s, cl, ev) ==
    LET c == s.c
        c2 ==
          CASE ev.kind = "start" ->
                 doRequest([c EXCEPT !.op = "doRequest", !.hasDest = FALSE,
                                     !.dispatched = TRUE], cl, s.cx)
            [] ev.kind = "resp" ->
                 LET h == handleResponse(ev.resp, c.hasDest, c.dest)
                 IN  doRequestResult([c EXCEPT !.retryAfterHdr = ev.resp.retryAfter],
                                     h.err, h.dest)
            [] ev.kind = "fail" ->
                 doRequestResult(c, Errorf("failed to send request: %w",
                                           IF s.cx.done THEN s.cx.err ELSE "network"),
                                 c.dest)
            [] ev.kind = "timer" -> SelectTimer(c, cl, s.cx)
            [] ev.kind = "ctxdone" -> SelectCtxDone(c, s.cx)
            [] OTHER -> c
    IN  [c  |-> c2,
         cx |-> IF ev.kind = "cancel" THEN [done |-> TRUE, err |-> "Canceled"]
                ELSE s.cx,
         hist |-> Append(s.hist, ev)]

\* The largest loop counter among the calls.
MaxAttempt(cs) ==
    CHOOSE a \in {cs[j].c.attempt : j \in CallIds} :
        \A j \in CallIds : cs[j].c.attempt <= a

\* A faulty variant: the loop counter is shared by the calls of a Client.
StepCall_SharedAttempt(cs, i, cl, ev) ==
    StepOf([cs[i] EXCEPT !.c.attempt = MaxAttempt(cs)], cl, ev)

\* A step of call i among the calls cs: attempt, lastErr and waitTime are
\* locals of the call, and of the Client only its configuration is read.
StepCall(cs, i, cl, ev) == StepOf(cs[i], cl, ev)

(***************************************************************************)
(* Actions.                                                                *)
(***************************************************************************)

\* Verify(ctx, req).
Verify ==
    /\ call.pc = "idle"
    /\ \E req \in Requests :
        /\ req.FaceEmbedding = <<>>
        /\ LET c == [call EXCEPT !.op = "Verify", !.req = req]
           IN  call' =
                 IF VerifyInvalid(req)
                 THEN [c EXCEPT !.pc = "done", !.retResult = "nil",
                         !.retErr = NewValidationError(
                             Str("Must provide image_url or image_base64"), "nil", "")]
                 ELSE doRequest([c EXCEPT !.hasDest = TRUE, !.dispatched = TRUE],
                                client, ctx)
    /\ UNCHANGED <<client, ctx, probe, calls>>

\* CheckConsent(ctx, req).
CheckConsent ==
    /\ call.pc = "idle"
    /\ \E req \in Requests :
        LET c == [call EXCEPT !.op = "CheckConsent", !.req = req]
        IN  call' =
              IF CheckConsentInvalid(req)
              THEN [c EXCEPT !.pc = "done", !.retResult = "nil",
                      !.retErr = NewValidationError(
                          Str("Must provide image_url, image_base64, or face_embedding"),
                          "nil", "")]
              ELSE doRequest([c EXCEPT !.hasDest = TRUE, !.dispatched = TRUE],
                             client, ctx)
    /\ UNCHANGED <<client, ctx, probe, calls>>

\* GetIdentity(ctx, identityID).
GetIdentity ==
    /\ call.pc = "idle"
    /\ \E id \in IdentityIDs :
        call' = doRequest([call EXCEPT !.op = "GetIdentity", !.identityID = id,
                                       !.hasDest = TRUE, !.dispatched = TRUE],
                          client, ctx)
    /\ UNCHANGED <<client, ctx, probe, calls>>

\* doRequest(ctx, method, path, nil, nil): a call that wants no decoded result.
DoRequestNoResult ==
    /\ call.pc = "idle"
    /\ call' = doRequest([call EXCEPT !.op = "doRequest", !.hasDest = FALSE,
                                      !.dispatched = TRUE],
                         client, ctx)
    /\ UNCHANGED <<client, ctx, probe, calls>>

\* httpClient.Do returns a response, and handleResponse classifies it.  A
\* response is only returned while the context is not done.
ReceiveResponse ==
    /\ call.pc = "inflight"
    /\ ~ctx.done
    /\ \E resp \in ServedResponses :
        LET h == handleResponse(resp, call.hasDest, call.dest)
        IN  call' = doRequestResult([call EXCEPT !.retryAfterHdr = resp.retryAfter],
                                    h.err, h.dest)
    /\ UNCHANGED <<client, ctx, probe, calls>>

\* httpClient.Do returns an error: the context ended the wait, or else the
\* network failed or the client's timeout passed.
TransportFailure ==
    /\ call.pc = "inflight"
    /\ \E cause \in (IF ctx.done THEN {ctx.err} ELSE {"network", "timeout"}) :
        call' = doRequestResult(call, Errorf("failed to send request: %w", cause),
                                call.dest)
    /\ UNCHANGED <<client, ctx, probe, calls>>

\* A faulty variant: the wait is a plain sleep, which the context cannot end.
TimerFires_IgnoresCtx ==
    /\ call.pc = "backoff"
    /\ call' = SelectTimer(call, client, ctx)
    /\ UNCHANGED <<client, ctx, probe, calls>>

\* The backoff timer fires before the context is done.
TimerFires ==
    /\ call.pc = "backoff"
    /\ ~ctx.done
    /\ call' = SelectTimer(call, client, ctx)
    /\ UNCHANGED <<client, ctx, probe, calls>>

\* The context is done while the call waits in the backoff select.
BackoffCtxDone ==
    /\ call.pc = "backoff"
    /\ ctx.done
    /\ call' = SelectCtxDone(call, ctx)
    /\ UNCHANGED <<client, ctx, probe, calls>>

\* The caller cancels the context, or its deadline passes.
Cancel ==
    /\ ~ctx.done
    /\ call.pc # "done"
    /\ \E kind \in {"Canceled", "DeadlineExceeded"} :
        ctx' = [done |-> TRUE, err |-> kind]
    /\ UNCHANGED <<client, call, probe, calls>>

Next ==
    \/ Verify
    \/ CheckConsent
    \/ GetIdentity
    \/ DoRequestNoResult
    \/ ReceiveResponse
    \/ TransportFailure
    \/ TimerFires
    \/ BackoffCtxDone
    \/ Cancel

Spec == Init /\ [][Next]_vars

\* httpClient.Do returns, with a response or with an error.
NetworkCompletes == ReceiveResponse \/ TransportFailure

\* The backoff select returns, through the timer or through ctx.Done().
BackoffEnds == TimerFires \/ BackoffCtxDone

\* The retry loop under the assumption that every network attempt completes
\* and every backoff select returns.
FairSpec == Spec /\ WF_vars(NetworkCompletes) /\ WF_vars(BackoffEnds)

(***************************************************************************)
(* handleResponse on its own: every response, with and without a           *)
(* destination, the destination fresh or already written.                  *)
(***************************************************************************)

InitHandle ==
    /\ client = NewClient(DefaultMaxRetries)
    /\ ctx = [done |-> FALSE, err |-> "nil"]
    /\ call = IdleCall
    /\ calls = NoCalls
    /\ probe \in {[NoProbe EXCEPT !.resp = r, !.hasDest = h, !.dest = d,
                                  !.out = [err |-> NilError, dest |-> d]] :
                     r \in Responses, h \in BOOLEAN, d \in {"zero", "decoded"}}

HandleResponse ==
    /\ ~probe.applied
    /\ probe' = [probe EXCEPT !.applied = TRUE,
                   !.out = handleResponse(probe.resp, probe.hasDest, probe.dest)]
    /\ UNCHANGED <<client, ctx, call, calls>>

NextHandle == HandleResponse

SpecHandle == InitHandle /\ [][NextHandle]_vars

(***************************************************************************)
(* Two calls at once.                                                      *)
(***************************************************************************)

InitConcurrent ==
    /\ client \in {NewClient(m) : m \in ConcurrentRetries}
    /\ ctx = [done |-> FALSE, err |-> "nil"]
    /\ call = IdleCall
    /\ probe = NoProbe
    /\ calls = NoCalls

\* Event ev happens to call i.
Happens(i, ev) ==
    /\ EventEnabled(calls[i], ev)
    /\ calls' = [calls EXCEPT ![i] = StepCall(calls, i, client, ev)]
    /\ UNCHANGED <<client, ctx, call, probe>>

\* A goroutine calls doRequest.
CallStarts == \E i \in CallIds : Happens(i, Event("start", MkResponse(200, EmptyBody, <<>>, "", TRUE)))

\* httpClient.Do returns a response to one of the calls.
CallReceives == \E i \in CallIds : \E ev \in Events : ev.kind = "resp" /\ Happens(i, ev)

\* httpClient.Do returns an error to one of the calls.
CallFails == \E i \in CallIds : \E ev \in Events : ev.kind = "fail" /\ Happens(i, ev)

\* The backoff timer of one of the calls fires.
CallTimerFires == \E i \in CallIds : \E ev \in Events : ev.kind = "timer" /\ Happens(i, ev)

\* The backoff select of one of the calls sees its context done.
CallCtxDone == \E i \in CallIds : \E ev \in Events : ev.kind = "ctxdone" /\ Happens(i, ev)

\* The context of one of the calls is cancelled.
CallCancelled == \E i \in CallIds : \E ev \in Events : ev.kind = "cancel" /\ Happens(i, ev)

NextConcurrent ==
    \/ CallStarts
    \/ CallReceives
    \/ CallFails
    \/ CallTimerFires
    \/ CallCtxDone
    \/ CallCancelled

SpecConcurrent == InitConcurrent /\ [][NextConcurrent]_vars

(***************************************************************************)
(* Properties of the retry loop.                                           *)
(***************************************************************************)

NonRetryableTypes ==
    {"AuthenticationError", "NotFoundError", "ValidationError", "ActorHubError"}

\* The call went through doRequest and has returned.
Returned == call.pc = "done" /\ call.dispatched

\* After a classified failure that is not retried, the call is over with it.
NoRetryAfterNonRetryable ==
    (call.attempts >= 1 /\ call.attemptErr.type \in NonRetryableTypes)
        => call.pc = "done" /\ call.retErr = call.attemptErr

\* C1 as stated: for maxRetries >= 1, a call all of whose attempts failed with
\* a rate-limit or server failure made exactly maxRetries HTTP attempts, and a
\* 401, 404, 422 or generic 4xx failure is followed by no attempt.
C1_ExactlyMaxRetries ==
    /\ (Returned /\ client.maxRetries >= 1 /\ call.attempts >= 1 /\ call.onlyRetryable)
          => call.sent = client.maxRetries /\ call.attempts = client.maxRetries
    /\ NoRetryAfterNonRetryable

\* C1, amended: the same, for calls none of whose backoff waits was ended by
\* the context.
C1_ExactlyMaxRetriesUncancelled ==
    /\ (Returned /\ client.maxRetries >= 1 /\ call.attempts >= 1 /\ call.onlyRetryable
          /\ ~call.cutShort)
          => call.sent = client.maxRetries /\ call.attempts = client.maxRetries
    /\ NoRetryAfterNonRetryable

\* A call under the default ceiling that used all three attempts on failures.
C1_Witness ==
    /\ Returned /\ client.maxRetries = DefaultMaxRetries
    /\ call.onlyRetryable /\ ~call.cutShort
    /\ call.sent = DefaultMaxRetries /\ call.retErr.type = "RateLimitError"

\* C2: with maxRetries <= 0 a call makes exactly one attempt, without a
\* retry, and returns that attempt's outcome.
C2_SingleAttempt ==
    (Returned /\ client.maxRetries <= 0)
        => call.attempts = 1 /\ call.waits = 0 /\ call.retErr = call.attemptErr

\* min(2^a, 10).
BackoffSeconds(a) == IF a >= 4 THEN 10 ELSE 2 ^ a

\* C3: the wait after a retryable failure of attempt a is min(2^a, 10)
\* seconds, for every a below maxRetries, and is positive.
C3_Backoff ==
    call.pc = "backoff"
        => /\ call.waitTime = TimesSecond(I64(BackoffSeconds(call.attempt)))
           /\ Gt64(call.waitTime, I64(0))

\* C4: when the context is done while the call waits in a backoff, the call
\* returns ctx.Err(), not the failure that started the wait, and makes no
\* further attempt.
C4_CancelDuringBackoff ==
    [][(call.pc = "backoff" /\ ctx.done)
         => /\ call'.pc = "done"
            /\ call'.retErr = CtxError(ctx.err)
            /\ call'.retErr # call.lastErr
            /\ call'.attempts = call.attempts /\ call'.sent = call.sent]_vars

\* A call whose wait after a rate-limit failure was ended by a cancellation.
C4_Witness ==
    /\ Returned /\ call.cutShort
    /\ call.lastErr.type = "RateLimitError"
    /\ call.retErr = CtxError("Canceled")
    /\ call.attempts < client.maxRetries

\* C5: when all maxRetries attempts fail retryably and the context is never
\* done, the call returns the failure of the final attempt.
C5_LastFailure ==
    (Returned /\ client.maxRetries >= 1 /\ call.onlyRetryable
       /\ call.attempts = client.maxRetries /\ ~ctx.done)
        => call.retErr = call.attemptErr /\ IsRetryable(call.retErr)

\* A call that spent three attempts and returned the 503 of the last one with
\* its request ID.
C5_Witness ==
    /\ Returned /\ client.maxRetries = DefaultMaxRetries /\ ~ctx.done
    /\ call.onlyRetryable /\ call.attempts = DefaultMaxRetries
    /\ call.retErr = NewServerError(Str("boom"), 503, "req-1")

(***************************************************************************)
(* Properties of the classifier, stated of handleResponse on its own.      *)
(***************************************************************************)

\* The type the classification table gives a status.
TableType(st) ==
    CASE st = 401 -> "AuthenticationError"
      [] st = 404 -> "NotFoundError"
      [] st = 422 -> "ValidationError"
      [] st = 429 -> "RateLimitError"
      [] st >= 500 -> "ServerError"
      [] st >= 400 /\ st < 500 /\ st \notin {401, 404, 422, 429} -> "ActorHubError"
      [] OTHER -> "nil"

\* The default messages of the specification's table.
TableDefault(st) ==
    CASE st = 401 -> Str("Invalid or missing credential")
      [] st = 404 -> Str("Resource not found")
      [] st = 422 -> Str("Validation error")
      [] st = 429 -> Str("Rate limit exceeded")
      [] OTHER -> Sprintf("Server error: %d", st)

\* The default messages of the code.
CodeDefault(st) ==
    IF st = 401 THEN Str("Invalid or missing API key") ELSE TableDefault(st)

DefaultStatuses == {401, 404, 422, 429, 500, 503}

\* The table without its default messages: type, status and parsed body, and
\* for a status below 400 a nil error, or the decode failure when the
\* non-empty body does not decode into the destination.
AgreesWithTable(resp, hasDest, dest, e) ==
    /\ \/ e.type = TableType(resp.status)
       \/ /\ resp.status < 400 /\ hasDest /\ resp.body.kind # "empty"
          /\ UnmarshalResult(resp.body, dest).err # "nil"
          /\ e.type = "wrapped"
    /\ (resp.status >= 400 => e.StatusCode = resp.status)
    /\ (e.type = "ActorHubError" => e.ResponseData = UnmarshalMap(resp.body))

\* C6 as stated: once the body is read, handleResponse follows the table for
\* every status, and without a "detail" the statuses 401, 404, 422, 429, 500
\* and 503 get the table's default messages.
C6_Table ==
    (probe.applied /\ probe.resp.readOK) =>
        /\ AgreesWithTable(probe.resp, probe.hasDest, probe.dest, probe.out.err)
        /\ (probe.resp.status \in DefaultStatuses /\ probe.resp.body.detailType = "absent")
              => probe.out.err.Message = TableDefault(probe.resp.status)

\* C6, amended: the same, with "Invalid or missing API key" as the default
\* message of a 401.
C6_TableAmended ==
    (probe.applied /\ probe.resp.readOK) =>
        /\ AgreesWithTable(probe.resp, probe.hasDest, probe.dest, probe.out.err)
        /\ (probe.resp.status \in DefaultStatuses /\ probe.resp.body.detailType = "absent")
              => probe.out.err.Message = CodeDefault(probe.resp.status)

\* A 503 without a body, classified as a server error with the default message.
C6_Witness ==
    /\ probe.applied /\ probe.resp.readOK
    /\ probe.resp.status = 503 /\ probe.resp.body.kind = "empty"
    /\ probe.out.err = NewServerError(Sprintf("Server error: %d", 503), 503,
                                      probe.resp.requestID)

\* C9: a status below 400 with an empty body and a destination gives nil and
\* leaves the destination as it was; without a destination nothing is written.
C9_EmptyBody ==
    probe.applied =>
        /\ (probe.resp.readOK /\ probe.resp.status < 400 /\ probe.hasDest
              /\ probe.resp.body.kind = "empty")
              => probe.out.err = NilError /\ probe.out.dest = probe.dest
        /\ (~probe.hasDest => probe.out.dest = probe.dest)

\* An empty 200 handled with a destination that already holds a decoded value.
C9_Witness ==
    /\ probe.applied /\ probe.resp.readOK /\ probe.resp.status = 200
    /\ probe.resp.body.kind = "empty" /\ probe.hasDest
    /\ probe.dest = "decoded" /\ probe.out.dest = "decoded"
    /\ probe.out.err = NilError

(***************************************************************************)
(* More properties of the retry loop and of the wrappers.                  *)
(***************************************************************************)

\* C7: an attempt that fails with an error of no typed kind ends the call: the
\* error is returned, no backoff follows it and no further attempt is made.
C7_Unclassified ==
    (call.attempts >= 1 /\ call.attemptErr.type = "wrapped")
        => /\ call.pc = "done" /\ call.retErr = call.attemptErr
           /\ call.waits = call.attempts - 1 /\ ~call.cutShort

\* A timeout on the second of three permitted attempts, returned at once.
C7_Witness ==
    /\ Returned /\ client.maxRetries = DefaultMaxRetries
    /\ call.attempts = 2 /\ call.waits = 1
    /\ call.retErr = Errorf("failed to send request: %w", "timeout")

\* The error of a failed local check.
IsLocalValidationError(e) ==
    e.type = "ValidationError" /\ e.StatusCode = 422 /\ e.RequestID = ""

\* The wrapper refused the request before doRequest.
RefusedLocally ==
    /\ call.pc = "done" /\ ~call.dispatched
    /\ IsLocalValidationError(call.retErr) /\ call.retResult = "nil"
    /\ call.attempts = 0 /\ call.sent = 0

\* C8: Verify without ImageURL and ImageBase64, and CheckConsent without
\* ImageURL, ImageBase64 and FaceEmbedding, return a ValidationError (422, no
\* request ID) and a nil result without any HTTP request; with one of the
\* fields present the call goes to doRequest.
C8_LocalValidation ==
    /\ call.op = "Verify" =>
          IF call.req.ImageURL = "" /\ call.req.ImageBase64 = ""
          THEN RefusedLocally ELSE call.dispatched
    /\ call.op = "CheckConsent" =>
          IF call.req.ImageURL = "" /\ call.req.ImageBase64 = ""
             /\ call.req.FaceEmbedding = <<>>
          THEN RefusedLocally ELSE call.dispatched

\* A Verify with only inline image data that reached the server.
C8_Witness ==
    /\ call.op = "Verify" /\ call.req.ImageURL = "" /\ call.req.ImageBase64 = "b"
    /\ call.dispatched /\ call.sent = 1

\* The value the claim gives RetryAfter for a header: its integer, and 0 when
\* the header is absent or does not parse.
ClaimedRetryAfter(ra) ==
    IF ra # <<>> /\ Atoi(ra).err = "nil" THEN Atoi(ra).val ELSE I64(0)

\* C10: the Retry-After header does not change the wait, which is the one the
\* attempt number gives; it only sets RetryAfter of the RateLimitError, which
\* is 0 when the header is absent or does not parse.
C10_RetryAfter ==
    /\ call.pc = "backoff" => call.waitTime = WaitTime(call.attempt)
    /\ call.attemptErr.type = "RateLimitError"
          => call.attemptErr.RetryAfter = ClaimedRetryAfter(call.retryAfterHdr)

(***************************************************************************)
(* The message of a classified failure.                                    *)
(***************************************************************************)

\* The body is a JSON object whose "detail" is a string.
HasStringDetail(body) == body.kind = "object" /\ body.detailType = "string"

\* The default message the claim gives a failure status: the table's, and
\* "API error: {status}" for the generic failure, which the table leaves open.
ClaimedDefault(st) ==
    IF TableType(st) = "ActorHubError" THEN Sprintf("API error: %d", st)
    ELSE TableDefault(st)

\* The default message handleResponse gives a failure status.
HandlerDefault(st) ==
    IF TableType(st) = "ActorHubError" THEN Sprintf("API error: %d", st)
    ELSE CodeDefault(st)

\* The message of a failure whose "detail" is the empty string: the
\* constructor's own default, which for a server error has no status, and
\* the empty string for the generic failure, which has no constructor.
EmptyDetailMessage(st) ==
    CASE TableType(st) = "ActorHubError" -> Str("")
      [] TableType(st) = "ServerError" -> Str("Server error")
      [] OTHER -> CodeDefault(st)

\* C11 as stated: for every failure status and body the message is the
\* body's "detail" when that is a string, the empty string included, and the
\* documented default of the status otherwise.
C11_Message ==
    (probe.applied /\ probe.resp.readOK /\ probe.resp.status >= 400) =>
        probe.out.err.Message =
            IF HasStringDetail(probe.resp.body) THEN probe.resp.body.detail
            ELSE ClaimedDefault(probe.resp.status)

\* C11, amended: the message is the "detail" when that is a non-empty string;
\* for an empty "detail" it is the constructor's default ("Server error"
\* without the status for >= 500, "" for the generic failure); otherwise it
\* is the default of handleResponse, which for 401 is "Invalid or missing
\* API key".
C11_MessageAmended ==
    (probe.applied /\ probe.resp.readOK /\ probe.resp.status >= 400) =>
        probe.out.err.Message =
            IF HasStringDetail(probe.resp.body) /\ probe.resp.body.detail # Str("")
            THEN probe.resp.body.detail
            ELSE IF HasStringDetail(probe.resp.body)
            THEN EmptyDetailMessage(probe.resp.status)
            ELSE HandlerDefault(probe.resp.status)

\* A 503 whose body carries a "detail", which became the message.
C11_Witness ==
    /\ probe.applied /\ probe.resp.readOK /\ probe.resp.status = 503
    /\ HasStringDetail(probe.resp.body) /\ probe.resp.body.detail = Str("boom")
    /\ probe.out.err.type = "ServerError" /\ probe.out.err.Message = Str("boom")

(***************************************************************************)
(* The order of the attempts of one call.                                  *)
(***************************************************************************)

\* While a request is on the wire, every earlier attempt has completed and
\* has been followed by a backoff wait that ran to its end.
OneInFlight == call.pc = "inflight" => call.attempts = call.waits + 1

\* A step that starts an attempt starts one; it is never taken while a
\* request is on the wire; and after the first attempt it is the step of the
\* timer of a backoff wait that followed a rate-limit or server failure.
AttemptStartsInOrder ==
    call'.attempts # call.attempts =>
        /\ call'.attempts = call.attempts + 1
        /\ call.pc # "inflight"
        /\ call.attempts >= 1 =>
            /\ call.pc = "backoff"
            /\ call.attemptErr.type \in {"RateLimitError", "ServerError"}
            /\ call'.waits = call.waits + 1
            /\ ~ctx.done

\* C12: within one doRequest call attempt k+1 is issued only after attempt k
\* has completed with a rate-limit or server failure and its backoff wait has
\* run to its end, and two attempts are never in flight together.
C12_Sequential == []OneInFlight /\ [][AttemptStartsInOrder]_vars

\* The third request is on the wire after two server failures and two waits.
C12_Witness ==
    /\ call.pc = "inflight" /\ call.attempts = 3 /\ call.sent = 3 /\ call.waits = 2
    /\ call.attemptErr.type = "ServerError"

(***************************************************************************)
(* Concurrent calls do not interfere.                                      *)
(***************************************************************************)

\* The state of a call that goes through the events of hist with no other
\* call on the Client.
RECURSIVE RunAlone(_, _, _)
RunAlone(i, cl, hist) ==
    IF hist = <<>> THEN FreshCall
    ELSE LET before == RunAlone(i, cl, SubSeq(hist, 1, Len(hist) - 1))
         IN  StepCall([NoCalls EXCEPT ![i] = before], i, cl, hist[Len(hist)])

\* Every call is where it would be had it met its events alone.
SameAsAlone ==
    \A i \in CallIds :
        LET alone == RunAlone(i, client, calls[i].hist).c
            mine  == calls[i].c
        IN  /\ mine.pc = alone.pc
            /\ mine.attempts = alone.attempts
            /\ mine.sent = alone.sent
            /\ mine.waits = alone.waits
            /\ mine.waitTime = alone.waitTime
            /\ mine.retErr = alone.retErr
            /\ mine.retResult = alone.retResult

ReturnsOnCancel ==
    (ctx.done /\ call.pc \in {"inflight", "backoff"} /\ call' # call) =>
        /\ call'.pc = "done"
        /\ call'.attempts = call.attempts /\ call'.sent = call.sent
        /\ call.pc = "inflight" =>
             /\ call'.retErr = Errorf("failed to send request: %w", ctx.err)
             /\ call'.retErr.type \notin {"RateLimitError", "ServerError"} \cup NonRetryableTypes
             /\ call'.attemptErr = call'.retErr
        /\ call.pc = "backoff" => call'.retErr = CtxError(ctx.err)

\* C14: once the context is cancelled during the network wait of an attempt
\* or during a backoff wait, doRequest returns an error and issues no later
\* attempt: the unclassified failure of the attempt in the first case,
\* ctx.Err() in the second.
C14_Cancellation == [][ReturnsOnCancel]_vars

\* The second request was on the wire when the context was cancelled, and the
\* call is over with the failure of that attempt.
C14_Witness ==
    /\ Returned /\ ctx.done /\ call.attempts = 2 /\ call.sent = 2 /\ call.waits = 1
    /\ call.retErr = Errorf("failed to send request: %w", "Canceled")
    /\ client.maxRetries = DefaultMaxRetries

(***************************************************************************)
(* A nil error means a successful response.                                *)
(***************************************************************************)

\* C15: for every maxRetries, doRequest returns a nil error only if a
\* request of that call was sent and answered successfully, so that an
\* endpoint wrapper returns a result with a nil error only after such a
\* response.
C15_NilOnlyAfterSuccess ==
    /\ (Returned /\ call.retErr = NilError) =>
          call.sent >= 1 /\ call.attempts >= 1 /\ call.attemptErr = NilError
    /\ (Returned /\ call.retResult # "nil") =>
          call.retErr = NilError /\ call.sent >= 1

(***************************************************************************)
(* Backoff waits and the attempts that follow them.                        *)
(***************************************************************************)

\* C16: every backoff wait is followed by another attempt, so a completed,
\* uncancelled call has made one wait fewer than attempts; once the final
\* permitted attempt has failed, that failure is what the call returns,
\* whatever happens to the context afterwards.
C16_WaitsBetweenAttempts ==
    /\ (Returned /\ ~ctx.done /\ call.attempts >= 1) =>
          call.waits = call.attempts - 1
    /\ (Returned /\ call.attempts >= 1 /\ call.attempts = client.maxRetries
          /\ call.attemptErr.type \in {"RateLimitError", "ServerError"}) =>
          call.retErr = call.attemptErr

(***************************************************************************)
(* Termination and the number of requests.                                 *)
(***************************************************************************)

\* max(maxRetries, 0)
RequestCeiling == IF client.maxRetries > 0 THEN client.maxRetries ELSE 0

\* C17: when every network attempt completes and every backoff wait ends,
\* through its timer or through the context, every doRequest call returns,
\* and it never has sent more than max(maxRetries, 0) requests.
C17_Terminates ==
    /\ call.dispatched ~> call.pc = "done"
    /\ [](call.sent <= RequestCeiling /\ call.attempts <= RequestCeiling)

\* The longest call: every permitted attempt was sent and failed, every wait
\* ran to its end, and the call has returned.
C17_Witness ==
    /\ Returned /\ client.maxRetries = LargeRetries
    /\ call.sent = LargeRetries /\ call.waits = LargeRetries

====
